---- MODULE Spec2Model ----
(***************************************************************************)
(* A model of the Controller Link, class TooltalkAPI of tooltalk_api.py:   *)
(* the connection state, the socket the link owns, the temporary socket of *)
(* test_connection, and the operations connect, disconnect,                *)
(* test_connection, set_torque_target, run_torque_test and                 *)
(* simulate_torque_test.                                                   *)
(*                                                                         *)
(* Text is a sequence of one-character strings.  Time is counted in        *)
(* seconds.  Torque is counted in thousandths of a unit, so that the       *)
(* truncation to the wire unit (hundredths) is visible.                    *)
(***************************************************************************)
EXTENDS Integers, Sequences, FiniteSets, TLC

(***************************************************************************)
(* Bounds of the model.                                                    *)
(***************************************************************************)
\* How many socket objects can be alive (open, or referenced) at once.
MaxSockets == 3
\* How many recv() calls the environment scripts for one _read_response.
MaxRecvs == 2
\* How long a recv() can wait for a chunk that comes before the socket
\* timeout.
LateArrival == 2
\* How many network operations one call can make: run_torque_test makes the
\* most, 3 before its loop and 2 in each of at most 30 turns.
MaxLog == 64

\* The longest text _parse_torque_result is given on its own.
MaxText == 9

\* How many capture threads one TorqueGraph starts.
MaxThreads == 2
\* How many samples wait in the hand-off queue of the TorqueGraph.
MaxQueue == 2
\* The size the capture loop limits the series to.  The program sets 1000;
\* the model follows the same code with a limit it can reach.
max_samples == 1
\* How many timers of the connect step can be pending at once.
MaxTimers == 2
\* How many times the wizard is run through before the last Restart.
MaxRuns == 2

(***************************************************************************)
(* Constants of the program, in seconds.                                   *)
(***************************************************************************)
\* self.timeout = 3
timeout == 3
\* max_wait_time = 30
max_wait_time == 30
\* One turn of the poll loop sleeps twice: time.sleep(0.5), time.sleep(0.5)
TurnSleep == 1
\* join(timeout=1.0) of stop_capture, in tenths of a second.
JoinTimeout == 10

None == 0

(***************************************************************************)
(* Text.                                                                   *)
(***************************************************************************)
Digits == {"0", "1", "2", "3", "4", "5", "6", "7", "8", "9"}

\* The characters str.strip() removes.
Whitespace == {" ", "CR", "LF"}

\* A byte that is not valid UTF-8: decode(errors='ignore') drops it.
InvalidByte == "xFF"

\* sub in s
Contains(s, sub) ==
    \E i \in 1..(Len(s) - Len(sub) + 1) : SubSeq(s, i, i + Len(sub) - 1) = sub

\* bytes.decode('utf-8', errors='ignore')
Decode(bytes) == SelectSeq(bytes, LAMBDA c : c # InvalidByte)

\* str.strip()
Strip(s) ==
    LET keep == {i \in 1..Len(s) : s[i] \notin Whitespace}
    IN  IF keep = {} THEN <<>>
        ELSE LET lo == CHOOSE i \in keep : \A j \in keep : i <= j
                 hi == CHOOSE i \in keep : \A j \in keep : j <= i
             IN  SubSeq(s, lo, hi)

\* str.upper(), on the letters the model's texts use
UpperChar(c) ==
    CASE c = "o" -> "O"
      [] c = "k" -> "K"
      [] c = "m" -> "M"
      [] c = "t" -> "T"
      [] OTHER -> c

Upper(s) == [i \in 1..Len(s) |-> UpperChar(s[i])]

DigitValue(c) ==
    CASE c = "0" -> 0 [] c = "1" -> 1 [] c = "2" -> 2 [] c = "3" -> 3
      [] c = "4" -> 4 [] c = "5" -> 5 [] c = "6" -> 6 [] c = "7" -> 7
      [] c = "8" -> 8 [] c = "9" -> 9

\* int() of a digit string
RECURSIVE ToInt(_)
ToInt(ds) ==
    IF ds = <<>> THEN 0
    ELSE 10 * ToInt(SubSeq(ds, 1, Len(ds) - 1)) + DigitValue(ds[Len(ds)])

\* str() of a digit
DigitChar(d) == CHOOSE c \in Digits : DigitValue(c) = d

\* str() of an integer that is not negative
RECURSIVE IntToText(_)
IntToText(n) ==
    IF n < 10 THEN <<DigitChar(n)>>
    ELSE IntToText(n \div 10) \o <<DigitChar(n % 10)>>

\* Zeros in front, up to the width.
RECURSIVE ZeroPad(_, _)
ZeroPad(ds, width) ==
    IF Len(ds) >= width THEN ds ELSE ZeroPad(<<"0">> \o ds, width)

\* f'{n:04d}': the width of 4 counts the sign.
Format04d(n) ==
    IF n >= 0 THEN ZeroPad(IntToText(n), 4)
    ELSE <<"-">> \o ZeroPad(IntToText(-n), 3)

\* int() of a quotient: towards zero.
Trunc(a, b) == IF a >= 0 THEN a \div b ELSE -((-a) \div b)

OK == <<"O", "K">>
CRLF == <<"CR", "LF">>
Marker0200 == <<"0", "2", "0", "0">>

(***************************************************************************)
(* Inputs: what the environment (the network, the controller, the caller)  *)
(* can hand to the link.                                                   *)
(***************************************************************************)
\* Target torques, in thousandths: 24.0 and 20.0
Targets == {24000, 20000}

\* The targets set_torque_target is called with, in thousandths: those of
\* the tests; 0, 0.005, 0.29, 0.58, 9.999 and 12.345; 99.99 and 100.0, the
\* last of 4 and the first of 5 wire digits; 9999.999 and 10000.0, the last
\* of 6 and the first of 7 wire digits; the negative -12.34 and -0.5.
SetTargets ==
    Targets \cup {0, 5, 290, 580, 9999, 12345, 99990, 100000, 9999999,
                  10000000, -12340, -500}

\* The targets whose product with 100 in binary floating point falls just
\* below the whole number: 0.29 * 100 is 28.999999999999996 and 0.58 * 100
\* is 57.99999999999999.
FloatBelow == {290, 580}

\* A faulty conversion: int(target_torque * 10)
TorqueDnm(target) == Trunc(target, 100)

\* torque_cnm = int(target_torque * 100)
TorqueCnm(target) ==
    IF target \in FloatBelow THEN Trunc(target, 10) - 1
    ELSE Trunc(target, 10)

\* The value field of the command f'0001 0014 0043 {torque_cnm:04d}\r\n'
WireValue(target) == Format04d(TorqueCnm(target))

\* The tests the caller runs: ("A", 24.0) and ("B", 20.0)
Tests == {[hole |-> "A", target |-> 24000], [hole |-> "B", target |-> 20000]}

\* The tests the caller simulates: every hole label with every target.
HoleLabels == {"A", "B"}
SimTests == [hole : HoleLabels, target : Targets]

\* datetime.now().strftime("%Y-%m-%d %H:%M:%S"): the clock's reading is not
\* modelled, the text stands for it.
Timestamp == "%Y-%m-%d %H:%M:%S"

\* random.uniform(-0.5, 0.5): both ends and the middle, in thousandths
FallbackJitter == {-500, 0, 500}

\* random.uniform(-2.5, 2.5): a faulty range of the variation
SimJitterWide == {-2500, 0, 2500}

\* random.uniform(-1.5, 1.5): both ends and the middle, in thousandths
SimJitter == {-1500, 0, 1500}

\* What one recv(1024) can hand back as data.
Chunks ==
    { OK \o CRLF,
      <<"O", InvalidByte, "K">> \o CRLF,
      <<"o", "k">> \o CRLF,
      Marker0200 \o <<" ", "0", "0", "2", "4", "0", "0">> \o CRLF,
      Marker0200 \o <<" ">>,
      <<"0", "0", "2", "4", "0", "0">> \o CRLF }

\* The identification reply of a controller.
IdentChunk == <<"m", "t", "6", "0", "0", "0">> \o CRLF

\* One recv(): data after a delay, b'' (the peer closed), socket.timeout
\* after self.timeout, or another error.
NoDataEvents ==
    { [kind |-> "eof", chunk |-> <<>>, dt |-> 0],
      [kind |-> "timeout", chunk |-> <<>>, dt |-> timeout],
      [kind |-> "error", chunk |-> <<>>, dt |-> 0] }

RecvEvents ==
    [kind : {"data"}, chunk : Chunks, dt : {0, LateArrival}] \cup NoDataEvents

\* The one recv() of test_connection.
ProbeEvents ==
    [kind : {"data"}, chunk : Chunks \cup {IdentChunk}, dt : {0}]
    \cup NoDataEvents

\* How socket.socket(), connect() and send() can end.
CreateOutcomes == {"ok", "error"}
ConnectOutcomes == {"ok", "timeout", "refused", "error"}
SendOutcomes == {"ok", "timeout", "error"}

(***************************************************************************)
(* _read_response: the framing read.                                       *)
(***************************************************************************)
\* The loop from its i-th recv() on: the bytes it returns, the time it
\* took and the number of recv() calls it made.  A recv() past the script's
\* end times out.
RECURSIVE ReadLoop(_, _, _, _)
ReadLoop(script, i, bytes, t) ==
    IF ~(t < timeout) THEN [bytes |-> bytes, dur |-> t, recvs |-> i - 1]
    ELSE LET ev == IF i <= Len(script) THEN script[i]
                   ELSE [kind |-> "timeout", chunk |-> <<>>, dt |-> timeout]
         IN  IF ev.kind = "data"
             THEN LET acc == bytes \o ev.chunk
                  IN  IF Contains(acc, CRLF)
                      THEN [bytes |-> acc, dur |-> t + ev.dt, recvs |-> i]
                      ELSE ReadLoop(script, i + 1, acc, t + ev.dt)
             ELSE [bytes |-> bytes, dur |-> t + ev.dt, recvs |-> i]

\* The loop is still running when the script's recv() outcomes are used
\* up: it calls recv() once more.
Running(script) == ReadLoop(script, 1, <<>>, 0).recvs > Len(script)

\* The recv() outcomes the environment scripts for one _read_response, at
\* most n of them: an outcome is scripted only for a recv() the loop makes.
RECURSIVE ScriptsUpTo(_)
ScriptsUpTo(n) ==
    IF n = 0 THEN {<<>>}
    ELSE LET shorter == ScriptsUpTo(n - 1)
             open == {p \in shorter : Len(p) = n - 1 /\ Running(p)}
         IN  shorter \cup {Append(p, ev) : p \in open, ev \in RecvEvents}

Scripts == ScriptsUpTo(MaxRecvs)

\* The decoded, stripped text _read_response returns on an open socket, and
\* how long the call took.
ReadResponse(script) ==
    LET r == ReadLoop(script, 1, <<>>, 0)
    IN  [response |-> Strip(Decode(r.bytes)), dur |-> r.dur]

\* Every (response, duration) a _read_response on an open socket can give.
ReadOutcomes == {ReadResponse(s) : s \in Scripts}

\* No _read_response was made.
NoRead == [response |-> <<>>, dur |-> 0]

\* The outcomes drawn for one connect or test_connection, step by step: a
\* step is drawn only when every step before it worked.
OpenInputs ==
    { [ping |-> FALSE, create |-> "ok", conn |-> "ok", snd |-> "ok"] }
    \cup { [ping |-> TRUE, create |-> "error", conn |-> "ok", snd |-> "ok"] }
    \cup [ping : {TRUE}, create : {"ok"}, conn : ConnectOutcomes \ {"ok"},
          snd : {"ok"}]
    \cup [ping : {TRUE}, create : {"ok"}, conn : {"ok"}, snd : SendOutcomes]

\* Every step of the call worked up to the send: a response is read.
Reached(i) == i.ping /\ i.create = "ok" /\ i.conn = "ok" /\ i.snd = "ok"

\* test_connection makes one recv(); None stands for the call it never
\* came to.
NoRecv == [kind |-> "none", chunk |-> <<>>, dt |-> 0]

\* One outcome for each response text, the quickest: for the callers that
\* do not look at how long the read took.
ReadTexts ==
    LET all == ReadOutcomes
    IN  { r \in all : \A q \in all : q.response = r.response => r.dur <= q.dur }

\* The outcomes drawn for one send followed by one _read_response, in a
\* turn of the poll loop: its deadline counts the time the read takes.
CommandInputs ==
    [snd : SendOutcomes \ {"ok"}, rd : {NoRead}]
    \cup [snd : {"ok"}, rd : ReadOutcomes]

\* The outcomes drawn for one send followed by one _read_response, outside
\* the poll loop.
OnceInputs ==
    [snd : SendOutcomes \ {"ok"}, rd : {NoRead}]
    \cup [snd : {"ok"}, rd : ReadTexts]

\* The outcomes drawn with a target that is not a test's: the command is
\* acknowledged at once, or its send fails.
EdgeInputs ==
    { [snd |-> "ok", rd |-> [response |-> OK, dur |-> 0]],
      [snd |-> "error", rd |-> NoRead] }

\* The outcomes drawn for a command that is not sent, because the guard of
\* its call fails.
NotSent == {[snd |-> "ok", rd |-> NoRead]}

(***************************************************************************)
(* _parse_torque_result                                                    *)
(***************************************************************************)
IsDigitRun(s, i, n) ==
    /\ i + n - 1 <= Len(s)
    /\ \A k \in i..(i + n - 1) : s[k] \in Digits

\* A faulty pattern: r'(\d{4})', the first 4 digits of the run.
TorqueMatchFour(response) ==
    LET starts == {i \in 1..Len(response) : IsDigitRun(response, i, 4)}
    IN  IF starts = {} THEN <<>>
        ELSE LET i == CHOOSE a \in starts : \A b \in starts : a <= b
             IN  SubSeq(response, i, i + 3)

\* re.search(r'(\d{4,6})', response): the leftmost run of at least 4
\* digits, cut after 6; <<>> when there is none.
TorqueMatch(response) ==
    LET starts == {i \in 1..Len(response) : IsDigitRun(response, i, 4)}
    IN  IF starts = {} THEN <<>>
        ELSE LET i == CHOOSE a \in starts : \A b \in starts : a <= b
                 n == CHOOSE m \in 4..6 :
                        /\ IsDigitRun(response, i, m)
                        /\ \A m2 \in (m + 1)..6 : ~IsDigitRun(response, i, m2)
             IN  SubSeq(response, i, i + n - 1)

\* A faulty parse: the text is not looked at, the target is handed back
\* with the variation.
ParseTorqueResultNearTarget(response, target, jitter) == target + jitter

\* The torque in thousandths: float(group) / 100.0, or the fallback
\* target_torque + random.uniform(-0.5, 0.5).
ParseTorqueResult(response, target, jitter) ==
    LET m == TorqueMatch(response)
    IN  IF m # <<>> THEN ToInt(m) * 10 ELSE target + jitter

(***************************************************************************)
(* The state of the link.                                                  *)
(***************************************************************************)
VARIABLES
    connected,          \* self.connected
    socket_connection,  \* self.socket_connection: None, or a socket object
    open_sockets,       \* the socket objects connect() created that are open
    test_socket,        \* the temporary socket of the call, when it returned
    pc,                 \* "idle", or "poll": inside run_torque_test's loop
    hole_label,         \* run_torque_test's arguments, while it runs
    target_torque,
    elapsed,            \* time.time() - start_time, in ticks
    lastOp,             \* the operation that ran last
    ret,                \* what it returned
    err,                \* the message of the exception it raised
    result,             \* <<the result record>> when it returned one
    response,           \* the response text it read last
    log,                \* what it did on the network, in order
    args,               \* the hole label and target torque it was called with
    wire,               \* the value field of the set-torque command it built
    in_flight,          \* whose replies can still arrive on the link's socket
    source,             \* the command the response taken as the result answers
    arrivals,           \* what the recv() calls of a lone _read_response get
    graph,              \* the TorqueGraph object and its capture threads
    wizard              \* the TorqueTestWizard: its step, state and timers

vars == <<connected, socket_connection, open_sockets, test_socket, pc,
          hole_label, target_torque, elapsed, lastOp, ret, err, result,
          response, log, args, wire, in_flight, source, arrivals,
          graph, wizard>>

\* The call takes no hole label ("") or no target torque (0).
NoArgs == [hole |-> "", target |-> 0]

Sockets == 1..MaxSockets

ErrNotConnected == "Not connected to controller"
ErrSetTorque == "Torque test failed: Failed to set target torque"
ErrTimeout == "Torque test failed: Timeout waiting for tightening result"
ErrTransport == "Torque test failed: transport error"

\* No sample is being appended to the series.
NoItem == [time |-> "", torque |-> "", angle |-> ""]

\* TorqueGraph.__init__: the object TorqueGraph(parent, enable_gui) with its
\* sample_rate set to rate.  threads holds the position of every capture
\* thread the object started, in the order of their start; pc is the
\* position of the main (Tk) thread inside the object's methods; item is the
\* sample _update_graph took from the queue and is still appending; ret is
\* what the last start_capture or stop_capture returned, saved the rows the
\* last stop_capture wrote, stopped the threads whose capture was stopped.
GraphNew(gui, rate) ==
    [enable_gui |-> gui,
     is_capturing |-> FALSE,
     capture_thread |-> None,
     data_queue |-> <<>>,
     torque_data |-> <<>>,
     angle_data |-> <<>>,
     time_data |-> <<>>,
     ani |-> "None",
     sample_rate |-> rate,
     threads |-> <<>>,
     pc |-> "idle",
     item |-> NoItem,
     op |-> "__init__",
     save_to_file |-> FALSE,
     ret |-> "None",
     saved |-> <<>>,
     stopped |-> {}]

\* The sample rate __init__ sets, in half hertz: 10 Hz.
sample_rate == 20

\* The specifications of the link make no TorqueGraph: the object stays as
\* its constructor leaves it.
NoGraph == GraphNew(TRUE, sample_rate)

\* TorqueTestWizard.__init__: an empty state dictionary (simulation_mode is
\* "missing") and the connect step on display, its check box unchecked.
\* timers counts the pending root.after(800, ...) calls; probed and linked
\* tell whether connect() got True from test_connection and then from
\* connect in the connect step that was shown last; calls holds the test
\* functions of the API the run-test step called, mode the simulation mode
\* it read; runs counts the runs and ran_real tells whether one of them
\* called run_torque_test.
WizardNew(test_phase) ==
    [enable_test_phase |-> test_phase,
     step |-> "connect",
     simulation_var |-> FALSE,
     simulation_mode |-> "missing",
     timers |-> 0,
     probed |-> FALSE,
     linked |-> FALSE,
     status_lbl |-> "Not connected",
     calls |-> {},
     mode |-> "missing",
     runs |-> 0,
     ran_real |-> FALSE]

\* The specifications of the link and of the graph show no wizard.
NoWizard == WizardNew(TRUE)

\* __init__
LinkFresh ==
    /\ connected = FALSE
    /\ socket_connection = None
    /\ open_sockets = {}
    /\ test_socket = "none"
    /\ pc = "idle"
    /\ hole_label = ""
    /\ target_torque = 0
    /\ elapsed = 0
    /\ lastOp = "init"
    /\ ret = "None"
    /\ err = ""
    /\ result = <<>>
    /\ response = <<>>
    /\ log = <<>>
    /\ args = NoArgs
    /\ wire = <<>>
    /\ in_flight = {}
    /\ source = ""

\* The program after TooltalkAPI(): no call was made yet.
Init ==
    /\ LinkFresh
    /\ arrivals = <<>>
    /\ graph = NoGraph
    /\ wizard = NoWizard

\* The controller answers when it will: a reply that was not read when its
\* call returned arrives later on the same socket.
EarlierCall == "earlier call"

\* _read_response returned no byte: the reply to the command is still to
\* come.
Unread(flying, resp) == IF resp = <<>> THEN {EarlierCall} ELSE flying

\* socket.socket(): a socket object that is neither open nor the one being
\* replaced.
NewSocket(open) == CHOOSE s \in Sockets \ open : \A o \in Sockets \ open : s <= o

\* send() on a closed socket raises OSError, whatever the network would
\* have done; on an open one it ends as the network decides.
Send(sock, open, drawn) == IF sock \in open THEN drawn ELSE "error"

\* The call returns: nothing of run_torque_test's loop is left.
Return(op, value, message, res) ==
    /\ pc' = "idle"
    /\ hole_label' = ""
    /\ target_torque' = 0
    /\ elapsed' = 0
    /\ lastOp' = op
    /\ ret' = value
    /\ err' = message
    /\ result' = res

(***************************************************************************)
(* connect                                                                 *)
(***************************************************************************)
\* A faulty test: any response that is not empty is taken for the
\* acknowledgement.
InitAcceptedAny(resp) == resp # <<>>

\* if response and 'OK' in response
InitAccepted(resp) == resp # <<>> /\ Contains(resp, OK)

\* A faulty handler: the link is cleaned up and the exception raised again.
ConnectFailedRaises(sock, open, done) ==
    [ connected |-> FALSE,
      sock |-> None,
      open |-> open \ {sock},
      ret |-> "raised",
      response |-> <<>>,
      log |-> IF sock # None THEN Append(done, "close") ELSE done ]

\* The except clauses of connect: all three do the same.
ConnectFailed(sock, open, done) ==
    [ connected |-> FALSE,
      sock |-> None,
      open |-> open \ {sock},
      ret |-> "False",
      response |-> <<>>,
      log |-> IF sock # None THEN Append(done, "close") ELSE done ]

\* A faulty check: the result of _ping_host is not looked at.
PingPassedAlways(ping) == TRUE

\* if not self._ping_host(ip_address): ... return False
PingPassed(ping) == ping

\* _ping_host ran: what it found.
PingLog(ping) == IF ping THEN "ping" ELSE "ping failed"

\* A faulty connect: the socket held so far is left as it is.
CloseExistingNot(sock, open) == open

\* Close existing connection if any
CloseExisting(sock, open) == open \ {sock}

ConnectOutcome(ping, create, conn, snd, rd) ==
    LET open0 == CloseExisting(socket_connection, open_sockets)
        log0 == IF socket_connection # None THEN <<"close", PingLog(ping)>>
                ELSE <<PingLog(ping)>>
        new == NewSocket(open0)
        open1 == open0 \cup {new}
    IN  IF ~PingPassed(ping)
        THEN [ connected |-> connected, sock |-> socket_connection,
               open |-> open0, ret |-> "False", response |-> <<>>,
               log |-> log0 ]
        ELSE IF create # "ok"
        THEN ConnectFailed(socket_connection, open0, Append(log0, "open"))
        ELSE IF conn # "ok"
        THEN ConnectFailed(new, open1, log0 \o <<"open", "connect">>)
        ELSE IF snd # "ok"
        THEN ConnectFailed(new, open1,
                           log0 \o <<"open", "connect", "send enable">>)
        ELSE IF InitAccepted(rd.response)
        THEN [ connected |-> TRUE, sock |-> new, open |-> open1,
               ret |-> "True", response |-> rd.response,
               log |-> log0 \o <<"open", "connect", "send enable", "read">> ]
        ELSE [ connected |-> connected, sock |-> None,
               open |-> open1 \ {new}, ret |-> "False",
               response |-> rd.response,
               log |-> log0 \o <<"open", "connect", "send enable", "read",
                                 "close">> ]

Connect ==
    /\ pc = "idle"
    /\ CloseExisting(socket_connection, open_sockets) # Sockets
    /\ \E i \in OpenInputs :
       \E rd \in IF Reached(i) THEN ReadTexts ELSE {NoRead} :
          LET o == ConnectOutcome(i.ping, i.create, i.conn, i.snd, rd)
          IN  /\ connected' = o.connected
              /\ socket_connection' = o.sock
              /\ open_sockets' = o.open
              /\ response' = o.response
              /\ log' = o.log
              /\ Return("connect", o.ret, "", <<>>)
    /\ test_socket' = "none"
    /\ args' = NoArgs
    /\ wire' = <<>>
    /\ in_flight' = {}
    /\ source' = ""
    /\ UNCHANGED arrivals
    /\ UNCHANGED <<graph, wizard>>

(***************************************************************************)
(* disconnect                                                              *)
(***************************************************************************)
\* A faulty guard: the command is sent whenever a socket is held.
DisableSentSocketOnly == socket_connection # None

\* if self.socket_connection and self.connected
DisableSent == socket_connection # None /\ connected

\* A faulty disconnect: the flag is cleared at the end of the try block, not
\* in a finally clause.
DisconnectOutcomeNoFinally(snd) ==
    LET sends == socket_connection # None /\ connected
        raised == sends /\ Send(socket_connection, open_sockets, snd) # "ok"
        log0 == IF sends THEN <<"send disable">> ELSE <<>>
    IN  IF raised
        THEN [ connected |-> connected, sock |-> socket_connection,
               open |-> open_sockets, log |-> log0 ]
        ELSE IF socket_connection # None
        THEN [ connected |-> FALSE, sock |-> None,
               open |-> open_sockets \ {socket_connection},
               log |-> Append(log0, "close") ]
        ELSE [ connected |-> FALSE, sock |-> None, open |-> open_sockets,
               log |-> log0 ]

DisconnectOutcome(snd) ==
    LET sends == DisableSent
        raised == sends /\ Send(socket_connection, open_sockets, snd) # "ok"
        log0 == IF sends THEN <<"send disable">> ELSE <<>>
    IN  IF raised
        THEN [ connected |-> FALSE, sock |-> socket_connection,
               open |-> open_sockets, log |-> log0 ]
        ELSE IF socket_connection # None
        THEN [ connected |-> FALSE, sock |-> None,
               open |-> open_sockets \ {socket_connection},
               log |-> Append(log0, "close") ]
        ELSE [ connected |-> FALSE, sock |-> None, open |-> open_sockets,
               log |-> log0 ]

Disconnect ==
    /\ pc = "idle"
    /\ \E snd \in SendOutcomes :
          LET o == DisconnectOutcome(snd)
          IN  /\ connected' = o.connected
              /\ socket_connection' = o.sock
              /\ open_sockets' = o.open
              /\ log' = o.log
              /\ in_flight' = IF o.sock \in o.open THEN in_flight ELSE {}
    /\ response' = <<>>
    /\ Return("disconnect", "None", "", <<>>)
    /\ test_socket' = "none"
    /\ args' = NoArgs
    /\ wire' = <<>>
    /\ source' = ""
    /\ UNCHANGED arrivals
    /\ UNCHANGED <<graph, wizard>>

(***************************************************************************)
(* test_connection                                                         *)
(***************************************************************************)
Patterns ==
    { <<"M", "T", "6", "0", "0", "0">>, <<"A", "T", "L", "A", "S">>,
      <<"0", "0", "4", "0">>, OK }

\* A faulty test: the response is compared as it came, not in upper case.
ProbeAcceptedAsSent(resp) == \E p \in Patterns : Contains(resp, p)

\* any(pattern in response_str.upper() for pattern in [...])
ProbeAccepted(resp) == \E p \in Patterns : Contains(Upper(resp), p)

\* What the call returns, the state its socket is left in, the decoded
\* response and what it did.  socket.timeout and ConnectionRefusedError
\* are handled by the inner try; any other exception by the outer one.
TestConnectionOutcome(ping, create, conn, snd, ev) ==
    LET out(value, sock, resp, done) ==
            [ret |-> value, test_socket |-> sock, response |-> resp,
             log |-> done]
        inner(kind) == kind \in {"timeout", "refused"}
    IN  IF ~PingPassed(ping) THEN out("False", "none", <<>>, <<PingLog(ping)>>)
        ELSE IF create # "ok" THEN out("False", "none", <<>>, <<PingLog(ping), "open">>)
        ELSE IF conn # "ok"
        THEN IF inner(conn)
             THEN out("False", "closed", <<>>,
                      <<PingLog(ping), "open", "connect", "close">>)
             ELSE out("False", "open", <<>>, <<PingLog(ping), "open", "connect">>)
        ELSE IF snd # "ok"
        THEN IF inner(snd)
             THEN out("False", "closed", <<>>,
                      <<PingLog(ping), "open", "connect", "send identify", "close">>)
             ELSE out("False", "open", <<>>,
                      <<PingLog(ping), "open", "connect", "send identify">>)
        ELSE IF ev.kind = "error"
        THEN out("False", "open", <<>>,
                 <<PingLog(ping), "open", "connect", "send identify", "recv">>)
        ELSE IF ev.kind = "data" /\ ProbeAccepted(Decode(ev.chunk))
        THEN out("True", "closed", Decode(ev.chunk),
                 <<PingLog(ping), "open", "connect", "send identify", "recv",
                   "close">>)
        ELSE out("False", "closed", Decode(ev.chunk),
                 <<PingLog(ping), "open", "connect", "send identify", "recv",
                   "close">>)

\* A faulty probe: the link's socket is closed to make room for the
\* temporary one.
ProbeClosesLink ==
    /\ open_sockets' = open_sockets \ {socket_connection}
    /\ UNCHANGED <<connected, socket_connection>>

\* test_connection works on the local test_socket only: it assigns none of
\* the link's fields.
ProbeKeepsLink == UNCHANGED <<connected, socket_connection, open_sockets>>

TestConnection ==
    /\ pc = "idle"
    /\ \E i \in OpenInputs :
       \E ev \in IF Reached(i) THEN ProbeEvents ELSE {NoRecv} :
          LET o == TestConnectionOutcome(i.ping, i.create, i.conn, i.snd, ev)
          IN  /\ test_socket' = o.test_socket
              /\ response' = o.response
              /\ log' = o.log
              /\ Return("test_connection", o.ret, "", <<>>)
    /\ args' = NoArgs
    /\ wire' = <<>>
    /\ source' = ""
    /\ UNCHANGED <<in_flight, arrivals>>
    /\ ProbeKeepsLink
    /\ UNCHANGED <<graph, wizard>>

(***************************************************************************)
(* set_torque_target                                                       *)
(***************************************************************************)
\* A faulty guard: the flag is not looked at.
SetGuardFailsSocketOnly == socket_connection = None

\* if not self.socket_connection or not self.connected
SetGuardFails == socket_connection = None \/ ~connected

\* A faulty command: the link is marked as lost when a command is sent.
CommandDropsLink ==
    /\ connected' = FALSE
    /\ UNCHANGED <<socket_connection, open_sockets>>

\* set_torque_target, _read_response and run_torque_test up to its loop
\* assign none of the link's fields.
CommandKeepsLink == UNCHANGED <<connected, socket_connection, open_sockets>>

\* A faulty test: any response that is not empty acknowledges the target.
SetAcknowledgedAny(resp) == resp # <<>>

\* return 'OK' in response
SetAcknowledged(resp) == Contains(resp, OK)

SetTorqueTargetOutcome(target, snd, rd) ==
    IF SetGuardFails
    THEN [ok |-> FALSE, response |-> <<>>, log |-> <<>>, wire |-> <<>>,
          in_flight |-> in_flight]
    ELSE IF Send(socket_connection, open_sockets, snd) # "ok"
    THEN [ok |-> FALSE, response |-> <<>>, log |-> <<"send set">>,
          wire |-> WireValue(target), in_flight |-> in_flight]
    ELSE [ok |-> SetAcknowledged(rd.response), response |-> rd.response,
          log |-> <<"send set", "read">>, wire |-> WireValue(target),
          in_flight |-> Unread(in_flight, rd.response)]

SetTorqueTarget ==
    /\ pc = "idle"
    /\ \E target \in SetTargets :
       \E i \in IF SetGuardFails THEN NotSent
                 ELSE IF target \in Targets THEN OnceInputs ELSE EdgeInputs :
          LET o == SetTorqueTargetOutcome(target, i.snd, i.rd)
          IN  /\ response' = o.response
              /\ log' = o.log
              /\ wire' = o.wire
              /\ in_flight' = o.in_flight
              /\ Return("set_torque_target",
                        IF o.ok THEN "True" ELSE "False", "", <<>>)
              /\ args' = [hole |-> "", target |-> target]
    /\ test_socket' = "none"
    /\ source' = ""
    /\ UNCHANGED arrivals
    /\ CommandKeepsLink
    /\ UNCHANGED <<graph, wizard>>

(***************************************************************************)
(* run_torque_test                                                         *)
(***************************************************************************)
\* if not self.connected or not self.socket_connection
RunGuardFails == ~connected \/ socket_connection = None

\* No _read_response follows the start command: its reply is in flight when
\* the loop begins.
StartUnread(flying) == flying \cup {"start"}

\* From the call to the start of the poll loop.
RunTorqueTestBegin ==
    /\ pc = "idle"
    /\ \E test \in Tests :
       \E i \in IF RunGuardFails THEN NotSent ELSE OnceInputs :
       \E snd2 \in IF SetAcknowledged(i.rd.response) THEN SendOutcomes
                   ELSE {"ok"} :
          LET o == SetTorqueTargetOutcome(test.target, i.snd, i.rd)
          IN  /\ args' = test
              /\ wire' = IF RunGuardFails THEN <<>> ELSE o.wire
              /\ IF RunGuardFails
                 THEN /\ Return("run_torque_test", "raised", ErrNotConnected, <<>>)
                      /\ response' = <<>>
                      /\ log' = <<>>
                      /\ UNCHANGED in_flight
                 ELSE IF ~o.ok
                 THEN /\ Return("run_torque_test", "raised", ErrSetTorque, <<>>)
                      /\ response' = o.response
                      /\ log' = o.log
                      /\ in_flight' = o.in_flight
                 ELSE IF Send(socket_connection, open_sockets, snd2) # "ok"
                 THEN /\ Return("run_torque_test", "raised", ErrTransport, <<>>)
                      /\ response' = o.response
                      /\ log' = Append(o.log, "send start")
                      /\ in_flight' = o.in_flight
                 ELSE /\ pc' = "poll"
                      /\ hole_label' = test.hole
                      /\ target_torque' = test.target
                      /\ elapsed' = 0
                      /\ lastOp' = "run_torque_test"
                      /\ ret' = "pending"
                      /\ err' = ""
                      /\ result' = <<>>
                      /\ response' = o.response
                      /\ log' = Append(o.log, "send start")
                      /\ in_flight' = StartUnread(o.in_flight)
    /\ test_socket' = "none"
    /\ source' = ""
    /\ UNCHANGED arrivals
    /\ CommandKeepsLink
    /\ UNCHANGED <<graph, wizard>>

\* A faulty loop: while True
DeadlineNever(e) == FALSE

\* while time.time() - start_time < max_wait_time
DeadlinePassed(e) == ~(e < max_wait_time)

\* A faulty test: if response
ResultAcceptedNonEmpty(resp) == resp # <<>>

\* if response and '0200' in response
ResultAccepted(resp) == resp # <<>> /\ Contains(resp, Marker0200)

\* A faulty loop: a turn marks the link as lost and polls on.
PollDropsLink ==
    /\ connected' = FALSE
    /\ UNCHANGED <<socket_connection, open_sockets>>

\* The loop assigns none of the link's fields.
PollKeepsLink == UNCHANGED <<connected, socket_connection, open_sockets>>

\* A faulty end of the loop: when no result came in time, the target is
\* handed back as the measurement.
TimeoutReturnsTarget ==
    Return("run_torque_test", "result", "",
           << [ hole_label |-> hole_label, target_torque |-> target_torque,
                actual_torque |-> target_torque,
                timestamp |-> Timestamp ] >>)

\* raise Exception("Timeout waiting for tightening result")
RaiseTimeout == Return("run_torque_test", "raised", ErrTimeout, <<>>)

\* A faulty turn: the cycle is started again before the result is asked
\* for.
PollRestarts == <<"send start", "send result", "read">>

\* What a turn does on the network: the result request, then
\* _read_response.
PollTurn == <<"send result", "read">>

\* The commands the text read in a turn can answer: the result request of
\* this call, or a command whose reply was in flight.
ReplySources == {"request"} \cup in_flight

\* One turn of the poll loop, or its end.
RunTorqueTestPoll ==
    /\ pc = "poll"
    /\ Len(log) < MaxLog
    /\ IF DeadlinePassed(elapsed)
       THEN /\ RaiseTimeout
            /\ in_flight' = {EarlierCall}
            /\ UNCHANGED <<response, log, source>>
       ELSE \E i \in CommandInputs :
            \E jitter \in IF TorqueMatch(i.rd.response) = <<>>
                           THEN FallbackJitter ELSE {0} :
            \E src \in IF ResultAccepted(i.rd.response) THEN ReplySources
                        ELSE {""} :
               IF Send(socket_connection, open_sockets, i.snd) # "ok"
               THEN /\ Return("run_torque_test", "raised", ErrTransport, <<>>)
                    /\ log' = Append(log, "send result")
                    /\ in_flight' = {EarlierCall}
                    /\ UNCHANGED <<response, source>>
               ELSE IF ResultAccepted(i.rd.response)
               THEN /\ Return("run_torque_test", "result", "",
                              << [ hole_label |-> hole_label,
                                   target_torque |-> target_torque,
                                   actual_torque |->
                                       ParseTorqueResult(i.rd.response,
                                                         target_torque,
                                                         jitter),
                                   timestamp |-> Timestamp ] >>)
                    /\ response' = i.rd.response
                    /\ log' = log \o PollTurn
                    /\ source' = src
                    /\ in_flight' = {EarlierCall}
               ELSE /\ elapsed' = elapsed + TurnSleep + i.rd.dur
                    /\ response' = i.rd.response
                    /\ log' = log \o PollTurn
                    /\ UNCHANGED <<pc, hole_label, target_torque, lastOp, ret,
                                   err, result, source, in_flight>>
    /\ test_socket' = "none"
    /\ UNCHANGED <<args, wire, arrivals>>
    /\ PollKeepsLink
    /\ UNCHANGED <<graph, wizard>>

(***************************************************************************)
(* simulate_torque_test                                                    *)
(***************************************************************************)
\* A faulty simulation: it ends the session as disconnect does.
SimulateDropsLink ==
    /\ log' = <<>>
    /\ test_socket' = "none"
    /\ connected' = FALSE
    /\ UNCHANGED <<socket_connection, open_sockets>>

\* The simulation uses no socket and assigns none of the link's fields.
SimulateOffline ==
    /\ log' = <<>>
    /\ test_socket' = "none"
    /\ UNCHANGED <<connected, socket_connection, open_sockets>>

SimulateTorqueTest ==
    /\ pc = "idle"
    /\ \E test \in SimTests, variation \in SimJitter :
          /\ Return("simulate_torque_test", "result", "",
                    << [ hole_label |-> test.hole,
                         target_torque |-> test.target,
                         actual_torque |-> test.target + variation,
                         timestamp |-> Timestamp ] >>)
          /\ args' = test
    /\ response' = <<>>
    /\ wire' = <<>>
    /\ source' = ""
    /\ UNCHANGED <<in_flight, arrivals>>
    /\ SimulateOffline
    /\ UNCHANGED <<graph, wizard>>

(***************************************************************************)
(* The link is used from one thread: a call starts when the one before it  *)
(* has returned.                                                           *)
(***************************************************************************)
Next ==
    \/ TestConnection
    \/ Connect
    \/ Disconnect
    \/ SetTorqueTarget
    \/ RunTorqueTestBegin
    \/ RunTorqueTestPoll
    \/ SimulateTorqueTest

Spec == Init /\ [][Next]_vars

\* A call that has started runs on: the loop of run_torque_test takes its
\* next turn.
LiveSpec == Spec /\ WF_vars(RunTorqueTestPoll)

(***************************************************************************)
(* _read_response on its own: the link holds no socket, a socket that was  *)
(* closed, or an open one on which the scripted recv() outcomes arrive.    *)
(***************************************************************************)
\* if not self.socket_connection: return ""; settimeout() on a closed
\* socket raises and the outer handler returns ""; otherwise the loop.
ReadResponseOn(sock, open, recvs) ==
    IF sock = None \/ sock \notin open THEN NoRead ELSE ReadResponse(recvs)

ReadInit ==
    /\ connected = FALSE
    /\ socket_connection \in {None, 1}
    /\ open_sockets \in {{}, {1}}
    /\ socket_connection = None => open_sockets = {}
    /\ test_socket = "none"
    /\ pc = "idle"
    /\ hole_label = ""
    /\ target_torque = 0
    /\ elapsed = 0
    /\ lastOp = "init"
    /\ ret = "None"
    /\ err = ""
    /\ result = <<>>
    /\ response = <<>>
    /\ log = <<>>
    /\ args = NoArgs
    /\ wire = <<>>
    /\ in_flight = {}
    /\ source = ""
    /\ arrivals \in Scripts
    /\ graph = NoGraph
    /\ wizard = NoWizard

\* One call: `response` is the text it returns, `elapsed` the time it took.
ReadResponseCall ==
    /\ lastOp = "init"
    /\ LET r == ReadResponseOn(socket_connection, open_sockets, arrivals)
       IN  /\ response' = r.response
           /\ elapsed' = r.dur
    /\ lastOp' = "_read_response"
    /\ ret' = "text"
    /\ UNCHANGED <<connected, socket_connection, open_sockets, test_socket,
                   pc, hole_label, target_torque, err, result, log, args,
                   wire, in_flight, source, arrivals>>
    /\ UNCHANGED <<graph, wizard>>

ReadNext == ReadResponseCall

ReadSpec == ReadInit /\ [][ReadNext]_vars

(***************************************************************************)
(* _parse_torque_result on its own: any text of digits and blanks up to    *)
(* MaxText characters, with either target.                                 *)
(***************************************************************************)
TextChars == {"0", "1", " "}

Texts == UNION { [1..n -> TextChars] : n \in 0..MaxText }

ParseInit ==
    /\ connected = FALSE
    /\ socket_connection = None
    /\ open_sockets = {}
    /\ test_socket = "none"
    /\ pc = "idle"
    /\ hole_label = ""
    /\ target_torque \in Targets
    /\ elapsed = 0
    /\ lastOp = "init"
    /\ ret = "None"
    /\ err = ""
    /\ result = <<>>
    /\ response \in Texts
    /\ log = <<>>
    /\ args = NoArgs
    /\ wire = <<>>
    /\ in_flight = {}
    /\ source = ""
    /\ arrivals = <<>>
    /\ graph = NoGraph
    /\ wizard = NoWizard

\* One call: `result` holds the torque it returns.
ParseTorqueResultCall ==
    /\ lastOp = "init"
    /\ \E jitter \in IF TorqueMatch(response) = <<>> THEN FallbackJitter
                      ELSE {0} :
          result' = << ParseTorqueResult(response, target_torque, jitter) >>
    /\ lastOp' = "_parse_torque_result"
    /\ ret' = "torque"
    /\ UNCHANGED <<connected, socket_connection, open_sockets, test_socket,
                   pc, hole_label, target_torque, elapsed, err, response,
                   log, args, wire, in_flight, source, arrivals>>
    /\ UNCHANGED <<graph, wizard>>

ParseNext == ParseTorqueResultCall

ParseSpec == ParseInit /\ [][ParseNext]_vars

(***************************************************************************)
(* TorqueGraph: the capture thread, the hand-off queue and the recorded    *)
(* series.  The capture thread runs _capture_loop statement by statement;  *)
(* start_capture, stop_capture and _update_graph run on the main thread.   *)
(***************************************************************************)
linkVars == <<connected, socket_connection, open_sockets, test_socket, pc,
              hole_label, target_torque, elapsed, lastOp, ret, err, result,
              response, log, args, wire, in_flight, source, arrivals>>

\* The sample rates the caller leaves or sets, in half hertz: 10 Hz and
\* 0.5 Hz.
SampleRates == {sample_rate, 1}

\* time.sleep(1.0 / self.sample_rate), in tenths of a second.
SleepTime(rate) == 20 \div rate

\* The dictionary _capture_loop puts into the queue.  The values it holds
\* play no part in what the object does with it.
Sample == [time |-> "time", torque |-> "torque", angle |-> "angle"]

\* Thread.is_alive() of capture thread t.
IsAlive(g, t) == t # None /\ g.threads[t] # "done"

\* The rows _save_data_to_csv writes: one for each entry of time_data.  It
\* raises IndexError at the first row torque_data has no entry for.
SaveRows(g) ==
    [i \in 1..(IF Len(g.torque_data) < Len(g.time_data)
               THEN Len(g.torque_data) ELSE Len(g.time_data)) |->
        [time |-> g.time_data[i],
         torque |-> g.torque_data[i],
         angle |-> IF i <= Len(g.angle_data) THEN g.angle_data[i] ELSE "0"]]

SaveRaises(g) == Len(g.torque_data) < Len(g.time_data)

\* get_data_summary: None without data, else the number of samples.
GetDataSummary(g) ==
    [none |-> g.torque_data = <<>>, samples |-> Len(g.torque_data)]

GraphInit ==
    /\ LinkFresh
    /\ arrivals = <<>>
    /\ wizard = NoWizard
    /\ \E gui \in BOOLEAN, rate \in SampleRates : graph = GraphNew(gui, rate)

\* start_capture.  _create_graph_window and _start_animation make the
\* animation that calls _update_graph from the Tk main loop.
StartCapture ==
    /\ graph.pc = "idle"
    /\ IF graph.is_capturing
       THEN graph' = [graph EXCEPT !.op = "start_capture", !.ret = "False"]
       ELSE /\ Len(graph.threads) < MaxThreads
            /\ graph' = [graph EXCEPT
                            !.torque_data = <<>>,
                            !.angle_data = <<>>,
                            !.time_data = <<>>,
                            !.is_capturing = TRUE,
                            !.threads = Append(@, "test"),
                            !.capture_thread = Len(graph.threads) + 1,
                            !.ani = IF graph.enable_gui THEN "running" ELSE @,
                            !.op = "start_capture",
                            !.ret = "True"]
    /\ UNCHANGED <<linkVars, wizard>>

\* stop_capture up to its join: the flag is cleared.
StopCaptureBegin(save) ==
    /\ graph.pc = "idle"
    /\ IF ~graph.is_capturing
       THEN graph' = [graph EXCEPT !.op = "stop_capture", !.ret = "None",
                                   !.save_to_file = save, !.saved = <<>>]
       ELSE graph' = [graph EXCEPT !.is_capturing = FALSE,
                                   !.stopped = @ \cup {graph.capture_thread},
                                   !.pc = "join",
                                   !.op = "stop_capture",
                                   !.save_to_file = save]
    /\ UNCHANGED <<linkVars, wizard>>

\* join(timeout=1.0) returns when the thread has ended, or after a second
\* with the thread still in a sleep that lasts as long or longer.
JoinReturns(g) ==
    \/ ~IsAlive(g, g.capture_thread)
    \/ /\ g.threads[g.capture_thread] = "sleep"
       /\ SleepTime(g.sample_rate) >= JoinTimeout

\* stop_capture from the return of join: the animation is stopped and the
\* series are saved.
StopCaptureEnd ==
    /\ graph.pc = "join"
    /\ JoinReturns(graph)
    /\ LET saving == graph.save_to_file /\ graph.torque_data # <<>>
       IN  graph' = [graph EXCEPT
                        !.pc = "idle",
                        !.ani = IF @ = "running" THEN "stopped" ELSE @,
                        !.saved = IF saving THEN SaveRows(graph) ELSE <<>>,
                        !.ret = IF ~saving THEN "None"
                                ELSE IF SaveRaises(graph) THEN "raised"
                                ELSE "filename"]
    /\ UNCHANGED <<linkVars, wizard>>

\* _update_graph, called by the running animation between two methods of
\* the main thread: it takes a sample from the queue and appends its time.
UpdateGet ==
    /\ graph.pc \in {"idle", "update"}
    /\ graph.pc = "idle" => graph.ani = "running"
    /\ graph.data_queue # <<>>
    /\ graph' = [graph EXCEPT !.item = Head(graph.data_queue),
                              !.data_queue = Tail(@),
                              !.time_data = Append(@, Head(graph.data_queue).time),
                              !.pc = "append_torque"]
    /\ UNCHANGED <<linkVars, wizard>>

UpdateAppendTorque ==
    /\ graph.pc = "append_torque"
    /\ graph' = [graph EXCEPT !.torque_data = Append(@, graph.item.torque),
                              !.pc = "append_angle"]
    /\ UNCHANGED <<linkVars, wizard>>

UpdateAppendAngle ==
    /\ graph.pc = "append_angle"
    /\ graph' = [graph EXCEPT !.angle_data = Append(@, graph.item.angle),
                              !.item = NoItem,
                              !.pc = "update"]
    /\ UNCHANGED <<linkVars, wizard>>

\* The queue is empty: _update_graph redraws and returns.
UpdateEnd ==
    /\ graph.pc = "update"
    /\ graph.data_queue = <<>>
    /\ graph' = [graph EXCEPT !.pc = "idle"]
    /\ UNCHANGED <<linkVars, wizard>>

\* Capture thread t moves to position p.
Goto(t, p) == [graph EXCEPT !.threads[t] = p]

Threads == 1..Len(graph.threads)

\* while self.is_capturing:
LoopTest(t) ==
    /\ graph.threads[t] = "test"
    /\ graph' = Goto(t, IF graph.is_capturing THEN "put" ELSE "done")
    /\ UNCHANGED <<linkVars, wizard>>

\* self.data_queue.put(...).  The model keeps the first MaxQueue samples
\* that wait in the queue: the further ones are not counted.
Put(t) ==
    /\ graph.threads[t] = "put"
    /\ graph' = [Goto(t, "limit") EXCEPT
                    !.data_queue = IF Len(@) < MaxQueue
                                   THEN Append(@, Sample) ELSE @]
    /\ UNCHANGED <<linkVars, wizard>>

\* if len(self.torque_data) > self.max_samples:
Limit(t) ==
    /\ graph.threads[t] = "limit"
    /\ graph' = Goto(t, IF Len(graph.torque_data) > max_samples
                        THEN "pop_torque" ELSE "sleep")
    /\ UNCHANGED <<linkVars, wizard>>

\* self.torque_data.pop(0); on an empty list it raises IndexError, which
\* ends the loop.
PopTorque(t) ==
    /\ graph.threads[t] = "pop_torque"
    /\ graph' = IF graph.torque_data = <<>> THEN Goto(t, "done")
                ELSE [Goto(t, "pop_angle") EXCEPT !.torque_data = Tail(@)]
    /\ UNCHANGED <<linkVars, wizard>>

PopAngle(t) ==
    /\ graph.threads[t] = "pop_angle"
    /\ graph' = IF graph.angle_data = <<>> THEN Goto(t, "done")
                ELSE [Goto(t, "pop_time") EXCEPT !.angle_data = Tail(@)]
    /\ UNCHANGED <<linkVars, wizard>>

PopTime(t) ==
    /\ graph.threads[t] = "pop_time"
    /\ graph' = IF graph.time_data = <<>> THEN Goto(t, "done")
                ELSE [Goto(t, "sleep") EXCEPT !.time_data = Tail(@)]
    /\ UNCHANGED <<linkVars, wizard>>

\* time.sleep(1.0 / self.sample_rate) returns.
Sleep(t) ==
    /\ graph.threads[t] = "sleep"
    /\ graph' = Goto(t, "test")
    /\ UNCHANGED <<linkVars, wizard>>

\* _capture_loop of thread t
CaptureLoop(t) ==
    \/ LoopTest(t)
    \/ Put(t)
    \/ Limit(t)
    \/ PopTorque(t)
    \/ PopAngle(t)
    \/ PopTime(t)
    \/ Sleep(t)

UpdateGraph ==
    \/ UpdateGet
    \/ UpdateAppendTorque
    \/ UpdateAppendAngle
    \/ UpdateEnd

GraphNext ==
    \/ StartCapture
    \/ \E save \in BOOLEAN : StopCaptureBegin(save)
    \/ StopCaptureEnd
    \/ UpdateGet
    \/ UpdateAppendTorque
    \/ UpdateAppendAngle
    \/ UpdateEnd
    \/ \E t \in Threads : LoopTest(t)
    \/ \E t \in Threads : Put(t)
    \/ \E t \in Threads : Limit(t)
    \/ \E t \in Threads : PopTorque(t)
    \/ \E t \in Threads : PopAngle(t)
    \/ \E t \in Threads : PopTime(t)
    \/ \E t \in Threads : Sleep(t)

GraphSpec == GraphInit /\ [][GraphNext]_vars

\* Every thread that runs gets its turn, and the main thread goes on with
\* the method it is in.
GraphLiveSpec ==
    /\ GraphSpec
    /\ \A t \in 1..MaxThreads : WF_vars(t \in Threads /\ CaptureLoop(t))
    /\ WF_vars(StopCaptureEnd)
    /\ WF_vars(UpdateGraph)

(***************************************************************************)
(* TorqueTestWizard: the steps of the wizard, the simulation mode it keeps *)
(* in its state dictionary and the test function it calls for each hole.   *)
(* What test_connection and connect of the API return is an input.  The    *)
(* 800 ms timers of the connect step fire before the user can act on the   *)
(* step they lead to; a second click on Connect in those 800 ms is         *)
(* possible.                                                               *)
(***************************************************************************)
\* What a call of the API can do for the handler that makes it.
ApiOutcomes == {"True", "False", "raised"}

WizardInit ==
    /\ LinkFresh
    /\ arrivals = <<>>
    /\ graph = NoGraph
    /\ \E test_phase \in BOOLEAN : wizard = WizardNew(test_phase)

\* The check box of the connect step.
ToggleSimulation ==
    /\ wizard.step = "connect"
    /\ wizard' = [wizard EXCEPT !.simulation_var = ~@]
    /\ UNCHANGED <<linkVars, graph>>

\* test_ip_connectivity and test_connection, the two Test Connection
\* buttons: they probe and show the outcome.
TestConnectionClick(ip_address, probe) ==
    /\ wizard.step = "connect"
    /\ wizard' = [wizard EXCEPT
                     !.status_lbl = IF ip_address = "" THEN @
                                    ELSE IF probe = "True" THEN "Connection verified!"
                                    ELSE IF probe = "False" THEN "Connection failed"
                                    ELSE "Connection error"]
    /\ UNCHANGED <<linkVars, graph>>

\* root.after(800, lambda: self.show_step(...))
After800(w) == [w EXCEPT !.timers = @ + 1]

\* A connect() that goes on to the next step whatever connect of the API
\* returned.
ConnectClickUnverified(ip_address, probe, link) ==
    /\ wizard.step = "connect"
    /\ wizard.timers < MaxTimers
    /\ wizard' =
          IF wizard.simulation_var
          THEN After800([wizard EXCEPT !.status_lbl = "Simulation Mode Active",
                                       !.simulation_mode = "True"])
          ELSE IF ip_address = "" THEN wizard
          ELSE IF probe = "False"
          THEN [wizard EXCEPT !.status_lbl = "Connection failed"]
          ELSE IF probe = "raised"
          THEN [wizard EXCEPT !.status_lbl = "Connection error"]
          ELSE After800([wizard EXCEPT !.status_lbl = "Connected and Ready",
                                       !.simulation_mode = "False",
                                       !.probed = TRUE,
                                       !.linked = link = "True"])
    /\ UNCHANGED <<linkVars, graph>>

\* connect(), the Connect & Continue button.
ConnectClick(ip_address, probe, link) ==
    /\ wizard.step = "connect"
    /\ wizard.timers < MaxTimers
    /\ wizard' =
          IF wizard.simulation_var
          THEN After800([wizard EXCEPT !.status_lbl = "Simulation Mode Active",
                                       !.simulation_mode = "True"])
          ELSE IF ip_address = "" THEN wizard
          ELSE IF probe = "False"
          THEN [wizard EXCEPT !.status_lbl = "Connection failed"]
          ELSE IF probe = "raised"
          THEN [wizard EXCEPT !.status_lbl = "Connection error"]
          ELSE IF link = "True"
          THEN After800([wizard EXCEPT !.status_lbl = "Connected and Ready",
                                       !.simulation_mode = "False",
                                       !.probed = TRUE,
                                       !.linked = TRUE])
          ELSE IF link = "False"
          THEN [wizard EXCEPT !.status_lbl = "Connection failed",
                              !.probed = TRUE]
          ELSE [wizard EXCEPT !.status_lbl = "Connection error",
                              !.probed = TRUE]
    /\ UNCHANGED <<linkVars, graph>>

\* A timer of the connect step fires: show_step("test_phase") or
\* show_step("hole_sample").
TimerFires ==
    /\ wizard.timers > 0
    /\ wizard' = [wizard EXCEPT
                     !.timers = @ - 1,
                     !.step = IF wizard.enable_test_phase
                              THEN "test_phase" ELSE "hole_sample"]
    /\ UNCHANGED <<linkVars, graph>>

\* The user acts on the step on display.
UserAt(step) == wizard.step = step /\ wizard.timers = 0

\* The test phase dialog is closed: show_test_phase goes on.
TestPhaseDone ==
    /\ UserAt("test_phase")
    /\ wizard' = [wizard EXCEPT !.step = "hole_sample"]
    /\ UNCHANGED <<linkVars, graph>>

\* next_ of the hole and sample step, with a preset or without.
HoleSampleNext(use_preset) ==
    /\ UserAt("hole_sample")
    /\ wizard' = [wizard EXCEPT !.step = IF use_preset THEN "label_placement"
                                         ELSE "image_upload"]
    /\ UNCHANGED <<linkVars, graph>>

ImageUploadNext ==
    /\ UserAt("image_upload")
    /\ wizard' = [wizard EXCEPT !.step = "label_placement"]
    /\ UNCHANGED <<linkVars, graph>>

\* The labels of the last image are placed.
LabelPlacementNext ==
    /\ UserAt("label_placement")
    /\ wizard' = [wizard EXCEPT !.step = "torque_setting"]
    /\ UNCHANGED <<linkVars, graph>>

\* next_ of the torque step shows the run-test step, which reads the
\* simulation mode once, with False for a missing key.
StartTest ==
    /\ UserAt("torque_setting")
    /\ wizard' = [wizard EXCEPT
                     !.step = "run_test",
                     !.calls = {},
                     !.mode = IF wizard.simulation_mode = "missing" THEN "False"
                              ELSE wizard.simulation_mode]
    /\ UNCHANGED <<linkVars, graph>>

\* The test function show_run_test calls for a hole when it read mode.
TestFunction(mode) ==
    IF mode = "True" THEN "simulate_torque_test" ELSE "run_torque_test"

\* The run-test step tests one hole.
TestHole ==
    /\ wizard.step = "run_test"
    /\ wizard' = [wizard EXCEPT !.calls = @ \cup {TestFunction(wizard.mode)}]
    /\ UNCHANGED <<linkVars, graph>>

\* All holes are tested: the results are saved and the plot is shown.
RunTestEnd ==
    /\ wizard.step = "run_test"
    /\ wizard' = [wizard EXCEPT
                     !.step = "show_plot",
                     !.runs = @ + 1,
                     !.ran_real = @ \/ "run_torque_test" \in wizard.calls]
    /\ UNCHANGED <<linkVars, graph>>

\* The Restart button: show_connect makes a new check box and a new status
\* label; the state dictionary is kept.
Restart ==
    /\ UserAt("show_plot")
    /\ wizard.runs < MaxRuns
    /\ wizard' = [wizard EXCEPT !.step = "connect",
                                !.simulation_var = FALSE,
                                !.status_lbl = "Not connected",
                                !.probed = FALSE,
                                !.linked = FALSE,
                                !.calls = {}]
    /\ UNCHANGED <<linkVars, graph>>

IpAddresses == {"", "ip"}

WizardNext ==
    \/ ToggleSimulation
    \/ \E ip_address \in IpAddresses, probe \in ApiOutcomes :
          TestConnectionClick(ip_address, probe)
    \/ \E ip_address \in IpAddresses, probe, link \in ApiOutcomes :
          ConnectClick(ip_address, probe, link)
    \/ TimerFires
    \/ TestPhaseDone
    \/ \E use_preset \in BOOLEAN : HoleSampleNext(use_preset)
    \/ ImageUploadNext
    \/ LabelPlacementNext
    \/ StartTest
    \/ TestHole
    \/ RunTestEnd
    \/ Restart

WizardSpec == WizardInit /\ [][WizardNext]_vars

(***************************************************************************)
(* Properties.                                                             *)
(***************************************************************************)
InLog(op) == \E k \in 1..Len(log) : log[k] = op

Text0200Torque == Marker0200 \o <<" ", "0", "0", "2", "4", "0", "0">>

\* C1: whenever connect() returns failure, the link is Disconnected
\* afterwards, whatever its state was before the call.
C1_FailedConnectDisconnects ==
    (lastOp = "connect" /\ ret = "False") => ~connected

\* C2: when the accepted poll response has the form "...0200 002400...",
\* run_torque_test("A", 24.0) returns actual_torque = 24.0, the field after
\* the marker divided by 100.
C2_TorqueFieldAfterMarker ==
    ( /\ lastOp = "run_torque_test"
      /\ ret = "result"
      /\ Contains(response, Text0200Torque)
      /\ result[1].hole_label = "A"
      /\ result[1].target_torque = 24000 )
    => result[1].actual_torque = 24000

\* C3: connect() returns success with the link Connected exactly when the
\* response it read after sending the enable command contains "OK"; with any
\* other response, or none, it returns failure.
C3_ConnectedIffOK ==
    lastOp = "connect" =>
        LET acknowledged == InLog("read") /\ Contains(response, OK)
        IN  /\ acknowledged => (ret = "True" /\ connected)
            /\ ~acknowledged => ret = "False"

C3_Witness ==
    /\ lastOp = "connect"
    /\ ret = "True"
    /\ connected
    /\ InLog("read")
    /\ Contains(response, OK)

\* C4: called on a Disconnected link, run_torque_test fails at once with the
\* not-connected condition and set_torque_target returns failure; neither
\* sends or receives anything.
C4_NoTransportUseWhenDisconnected ==
    [][ (pc = "idle" /\ ~connected) =>
          /\ lastOp' = "run_torque_test" =>
                (pc' = "idle" /\ ret' = "raised" /\ err' = ErrNotConnected
                 /\ log' = <<>>)
          /\ lastOp' = "set_torque_target" => (ret' = "False" /\ log' = <<>>)
      ]_vars

\* A Disconnected link that still holds an open socket was asked to run a
\* test.
C4_Witness ==
    /\ lastOp = "run_torque_test"
    /\ ~connected
    /\ socket_connection \in open_sockets
    /\ err = ErrNotConnected

\* C5: after disconnect() the transport the link held is closed and the link
\* holds no transport handle, also when sending the disable command fails.
C5_DisconnectReleasesTransport ==
    lastOp = "disconnect" => (socket_connection = None /\ open_sockets = {})

\* C6: disconnect() always leaves the link Disconnected.
C6_DisconnectAlwaysDisconnected == lastOp = "disconnect" => ~connected

\* disconnect() whose disable command could not be sent.
C6_Witness ==
    /\ lastOp = "disconnect"
    /\ log = <<"send disable">>
    /\ ~connected

\* C7: every temporary transport test_connection opens is closed before it
\* returns, for every outcome.
C7_ProbeClosesTemporary == lastOp = "test_connection" => test_socket # "open"

\* C8: no socket the link opened is open unless the link references it, so
\* at most one is open at a time; and a connect attempt that fails leaves no
\* socket open.
C8_NoDescriptorLeak ==
    /\ open_sockets \subseteq {socket_connection}
    /\ (lastOp = "connect" /\ ret = "False") => open_sockets = {}

\* A reconnect: the handle held before was closed first, then a new one was
\* opened, and it is the only open one.
C8_Witness ==
    /\ lastOp = "connect"
    /\ ret = "True"
    /\ log[1] = "close"
    /\ InLog("open")
    /\ open_sockets = {socket_connection}

\* C9: a result is produced only by simulate_torque_test, or by
\* run_torque_test on a Connected link.
C9_ResultOnlyWhenConnected ==
    result # <<>> =>
        \/ lastOp = "simulate_torque_test"
        \/ lastOp = "run_torque_test" /\ connected

C9_Witness ==
    /\ result # <<>>
    /\ lastOp = "run_torque_test"
    /\ connected

\* C10: run_torque_test always terminates: its poll loop is left, and once
\* the deadline has passed the next test of the loop condition ends the
\* operation with the timeout failure.
C10_PollLoopTerminates ==
    /\ (pc = "poll") ~> (pc = "idle")
    /\ [][ (pc = "poll" /\ ~(elapsed < max_wait_time)) =>
             (pc' = "idle" /\ ret' = "raised" /\ err' = ErrTimeout) ]_vars

\* The loop polled until the deadline and gave up.
C10_Witness ==
    /\ lastOp = "run_torque_test"
    /\ pc = "idle"
    /\ ret = "raised"
    /\ err = ErrTimeout
    /\ InLog("send result")

\* The only digits of the text are those of the marker "0200": it carries
\* no torque field.
OnlyMarkerDigits(s) ==
    /\ Contains(s, Marker0200)
    /\ \A i \in 1..Len(s) :
          s[i] \in Digits =>
              \E k \in 1..(Len(s) - 3) :
                  /\ k <= i /\ i <= k + 3
                  /\ SubSeq(s, k, k + 3) = Marker0200
                  /\ (k > 1 => s[k - 1] \notin Digits)
                  /\ (k + 4 <= Len(s) => s[k + 4] \notin Digits)

\* C11: when the accepted poll response has the marker "0200" and no torque
\* field to extract, run_torque_test returns a result whose actual_torque is
\* within 0.5 of target_torque.
C11_FallbackWithinHalf ==
    ( /\ lastOp = "run_torque_test"
      /\ pc = "idle"
      /\ InLog("send result")
      /\ log[Len(log)] = "read"
      /\ OnlyMarkerDigits(response) )
    => /\ ret = "result"
       /\ result # <<>>
       /\ result[1].actual_torque >= result[1].target_torque - 500
       /\ result[1].actual_torque <= result[1].target_torque + 500

\* C12: test_connection leaves the connection state and the socket the link
\* owns as they were before the call, whether it succeeds or fails and
\* whether the link was Connected or not.
C12_ProbeLeavesLink ==
    [][ lastOp' = "test_connection" =>
            /\ connected' = connected
            /\ socket_connection' = socket_connection
            /\ open_sockets' = open_sockets ]_vars

\* A probe that failed on a Connected link whose socket is still open.
C12_Witness ==
    /\ lastOp = "test_connection"
    /\ ret = "False"
    /\ connected
    /\ socket_connection \in open_sockets

\* C13: a run_torque_test that fails - the target was not acknowledged with
\* "OK", the poll deadline passed, or a send failed - raises, and hands back
\* no result record; a record is handed back only for an accepted poll
\* response.
C13_FailedRunRaises ==
    (lastOp = "run_torque_test" /\ pc = "idle") =>
        LET last == IF log = <<>> THEN "" ELSE log[Len(log)]
            polled == InLog("send result") /\ last = "read"
            accepted == polled /\ ResultAccepted(response)
        IN  /\ ret \in {"result", "raised"}
            /\ (ret = "result") <=> accepted
            /\ ret = "raised" => result = <<>>
            /\ ret = "result" => (result # <<>> /\ err = "")
            /\ (~InLog("send start") /\ InLog("send set")) =>
                   /\ ~Contains(response, OK)
                   /\ ret = "raised"
                   /\ err = ErrSetTorque
            /\ (polled /\ ~accepted) => (ret = "raised" /\ err = ErrTimeout)
            /\ last \in {"send start", "send result"} =>
                   (ret = "raised" /\ err = ErrTransport)

\* The send of a poll command failed on a link that had answered until
\* then.
C13_Witness ==
    /\ lastOp = "run_torque_test"
    /\ pc = "idle"
    /\ Len(log) > 4
    /\ log[Len(log)] = "send result"
    /\ ret = "raised"
    /\ err = ErrTransport
    /\ result = <<>>

\* C14: test_connection and connect never raise: each returns True or
\* False, and False whenever a step before the response failed or no
\* response came.
C14_OpenNeverRaises ==
    lastOp \in {"connect", "test_connection"} =>
        /\ ret \in {"True", "False"}
        /\ err = ""
        /\ ret = "True" =>
               /\ InLog("read") \/ InLog("recv")
               /\ response # <<>>

\* connect() whose socket could not be connected: refused, timed out, or
\* another error.
C14_Witness ==
    /\ lastOp = "connect"
    /\ ret = "False"
    /\ InLog("connect")
    /\ ~InLog("send enable")

\* C15: simulate_torque_test sends, receives, opens and closes nothing and
\* leaves the connection state and the link's socket as they were; it can be
\* called, and returns a result, whether the link is Connected or not.
C15_SimulateIsOffline ==
    /\ [](pc = "idle" => ENABLED SimulateTorqueTest)
    /\ [][ lastOp' = "simulate_torque_test" =>
              /\ log' = <<>>
              /\ test_socket' = "none"
              /\ connected' = connected
              /\ socket_connection' = socket_connection
              /\ open_sockets' = open_sockets
              /\ ret' = "result"
              /\ result' # <<>> ]_vars

\* A simulated result on a Connected link, which is still Connected and
\* still holds its open socket.
C15_Witness ==
    /\ lastOp = "simulate_torque_test"
    /\ ret = "result"
    /\ result # <<>>
    /\ log = <<>>
    /\ connected
    /\ socket_connection \in open_sockets

\* The fields of the record run_torque_test returns.
ResultFields == {"hole_label", "target_torque", "actual_torque", "timestamp"}

\* C16: simulate_torque_test(L, t) returns a record whose hole_label is L,
\* whose target_torque is t and whose actual_torque lies in [t - 1.5,
\* t + 1.5] - for ("B", 20.0) in [18.5, 21.5] - and every record, simulated
\* or measured, has the same four fields.
C16_SimulatedResult ==
    /\ result # <<>> => DOMAIN result[1] = ResultFields
    /\ lastOp = "simulate_torque_test" =>
          /\ result # <<>>
          /\ result[1].hole_label = args.hole
          /\ result[1].target_torque = args.target
          /\ result[1].actual_torque >= args.target - 1500
          /\ result[1].actual_torque <= args.target + 1500
          /\ (args = [hole |-> "B", target |-> 20000]) =>
                 (result[1].actual_torque \in 18500..21500)

\* ("B", 20.0) simulated with the largest variation.
C16_Witness ==
    /\ lastOp = "simulate_torque_test"
    /\ args = [hole |-> "B", target |-> 20000]
    /\ result # <<>>
    /\ result[1].actual_torque = 21500

\* How far the wire value of the call's target, parsed back as
\* _parse_torque_result parses a response, is from the target at most.
RoundTripError ==
    LET back == {ParseTorqueResult(wire, args.target, j) : j \in FallbackJitter}
        dist(a, b) == IF a >= b THEN a - b ELSE b - a
        far == {dist(b, args.target) : b \in back}
    IN  CHOOSE e \in far : \A f \in far : f <= e

C18_ProbeSuccessIffToken ==
    lastOp = "test_connection" =>
        LET answered == /\ log[1] = "ping"
                        /\ InLog("open")
                        /\ InLog("connect")
                        /\ InLog("recv")
                        /\ response # <<>>
            token == \E p \in Patterns : Contains(Upper(response), p)
        IN  (ret = "True") <=> (answered /\ token)

\* The controller identified itself in lower case.
C18_Witness ==
    /\ lastOp = "test_connection"
    /\ ret = "True"
    /\ Contains(response, <<"m", "t", "6", "0", "0", "0">>)

\* C19: the connection state changes only in connect and disconnect:
\* run_torque_test, whether it returns a result or fails, set_torque_target
\* and the reads they make leave it as it was.
C19_StateChangesOnlyInConnectDisconnect ==
    [][ /\ connected' # connected => lastOp' \in {"connect", "disconnect"}
        /\ lastOp' \in {"run_torque_test", "set_torque_target"} =>
               connected' = connected ]_vars

\* A test failed because the target was not acknowledged, and the link is
\* still Connected.
C19_Witness ==
    /\ lastOp = "run_torque_test"
    /\ ret = "raised"
    /\ err = ErrSetTorque
    /\ InLog("read")
    /\ connected

\* C20: whenever the link reports Connected, it holds a socket, and that
\* socket has not been closed by the link.
C20_ConnectedHoldsOpenSocket ==
    connected => (socket_connection # None /\ socket_connection \in open_sockets)

\* C21: run_torque_test sends the start command only when the response to
\* its set-torque command contained "OK"; when that response has no "OK", or
\* is empty, the call fails and sends neither the start command nor a
\* result request.
C21_StartOnlyAfterAcknowledge ==
    lastOp = "run_torque_test" =>
        /\ (log # <<>> /\ log[Len(log)] = "send start") =>
               /\ log = <<"send set", "read", "send start">>
               /\ Contains(response, OK)
        /\ (log = <<"send set", "read">> /\ ~Contains(response, OK)) =>
               (pc = "idle" /\ ret = "raised" /\ err = ErrSetTorque)
        /\ (InLog("send start") \/ InLog("send result")) =>
               /\ Len(log) >= 3
               /\ SubSeq(log, 1, 3) = <<"send set", "read", "send start">>

\* The target was acknowledged and the start command has just been sent.
C21_Witness ==
    /\ lastOp = "run_torque_test"
    /\ pc = "poll"
    /\ log = <<"send set", "read", "send start">>
    /\ Contains(response, OK)

\* How often the call did op on the network.
Count(op) == Cardinality({k \in 1..Len(log) : log[k] = op})

\* C22: one run_torque_test sends the set-torque command at most once and
\* the start command at most once, the set command first, and result
\* requests only after the start command; a poll that timed out is
\* followed by another result request, never by a second set or start.
C22_SetAndStartOnce ==
    lastOp = "run_torque_test" =>
        /\ Count("send set") <= 1
        /\ Count("send start") <= 1
        /\ \A k \in 1..Len(log) :
              /\ log[k] = "send start" =>
                     \E j \in 1..(k - 1) : log[j] = "send set"
              /\ log[k] = "send result" =>
                     \E j \in 1..(k - 1) : log[j] = "send start"

\* A poll timed out without a byte and the loop asked again.
C22_Witness ==
    /\ lastOp = "run_torque_test"
    /\ pc = "poll"
    /\ Count("send result") >= 2
    /\ elapsed >= 2 * (TurnSleep + timeout)
    /\ response = <<>>

\* C23: the response run_torque_test takes as the result answers a result
\* request of that same call; a reply in flight from an earlier command, or
\* from an earlier call that timed out, is never taken as the result.
C23_ResultAnswersRequest ==
    (lastOp = "run_torque_test" /\ ret = "result") => source = "request"

\* C24: a turn of the poll loop whose response contains "0200" ends the
\* loop: the call returns a record whose actual torque is parsed from that
\* response and sends nothing more; after a turn whose response lacks
\* "0200" (an empty one too) the loop goes on and no record exists.  So the
\* response the loop ends on is the first with "0200".
PollRead ==
    /\ pc = "poll"
    /\ Len(log') = Len(log) + 2
    /\ SubSeq(log', Len(log) + 1, Len(log) + 2) = <<"send result", "read">>

C24_ExitOnFirst0200 ==
    [][ PollRead =>
          IF Contains(response', Marker0200)
          THEN /\ pc' = "idle"
               /\ ret' = "result"
               /\ Len(result') = 1
               /\ \E j \in FallbackJitter :
                     result'[1].actual_torque =
                         ParseTorqueResult(response', target_torque, j)
               /\ InLog("send result") => ~Contains(response, Marker0200)
          ELSE /\ pc' = "poll"
               /\ result' = <<>>
               /\ ret' # "result" ]_vars

C24_Witness ==
    /\ lastOp = "run_torque_test"
    /\ ret = "result"
    /\ Cardinality({k \in 1..Len(log) : log[k] = "send result"}) >= 2
    /\ Contains(response, Marker0200)

\* C25: a call of _read_response takes no longer than the per-read timeout,
\* whatever arrives and whenever.
C25_ReadWithinTimeout ==
    lastOp = "_read_response" => elapsed <= timeout

\* C26: in test_connection and in connect a socket is created and connected
\* only after the ping of that call succeeded; when the ping fails the
\* call returns False and does nothing more: no socket is created, none is
\* connected.
C26_NoSocketWithoutPing ==
    lastOp \in {"connect", "test_connection"} =>
        /\ InLog("ping") \/ InLog("ping failed")
        /\ \A k \in 1..Len(log) :
              log[k] \in {"open", "connect"} =>
                  \E j \in 1..(k - 1) : log[j] = "ping"
        /\ InLog("ping failed") =>
              /\ ret = "False"
              /\ log[Len(log)] = "ping failed"
              /\ ~InLog("open") /\ ~InLog("connect")
              /\ test_socket = "none"
              /\ lastOp = "connect" => socket_connection \notin open_sockets

C26_Witness ==
    /\ lastOp = "connect"
    /\ log = <<"close", "ping failed">>
    /\ ret = "False"

\* C27: _parse_torque_result takes the leftmost run of digits that is at
\* least 4 long, reads its first 6 digits at most as a whole number of
\* hundredths, and returns that; shorter runs before it are passed over,
\* and with no such run the result is the target with the variation.
RunLength(s, i) ==
    CHOOSE n \in 0..Len(s) :
        /\ IsDigitRun(s, i, n)
        /\ ~IsDigitRun(s, i, n + 1)

RunStarts(s) ==
    {i \in 1..Len(s) : s[i] \in Digits /\ (i = 1 \/ s[i - 1] \notin Digits)}

C27_LeftmostRunOfFourToSix ==
    lastOp = "_parse_torque_result" =>
        LET long == {i \in RunStarts(response) : RunLength(response, i) >= 4}
        IN  IF long = {}
            THEN result[1] - target_torque \in FallbackJitter
            ELSE LET i == CHOOSE a \in long : \A b \in long : a <= b
                     len == RunLength(response, i)
                     n == IF len > 6 THEN 6 ELSE len
                 IN  result[1] = ToInt(SubSeq(response, i, i + n - 1)) * 10

C27_Witness ==
    /\ lastOp = "_parse_torque_result"
    /\ response = <<"1", " ", "0", "1", "1", "1", "1", "1", "1">>
    /\ result = <<111110>>

\* C28: the actual torque run_torque_test returns is a function of the
\* accepted response alone: the response has a digit run that parses, and
\* parsing it with any target and any random variation gives the torque
\* returned.
C28_TorqueDeterminedByResponse ==
    (lastOp = "run_torque_test" /\ ret = "result") =>
        /\ TorqueMatch(response) # <<>>
        /\ \A t \in Targets, j \in FallbackJitter :
              ParseTorqueResult(response, t, j) = result[1].actual_torque

C28_Witness ==
    /\ lastOp = "run_torque_test"
    /\ ret = "result"
    /\ args.target = 20000
    /\ response = Text0200Torque
    /\ result[1].actual_torque = 2000

\* C29: disconnect() sends the disable command exactly when the link is
\* connected and holds a socket as the call begins, and sends it before it
\* closes the socket; on a link that is not connected it sends nothing.
C29_DisableSentIffConnected ==
    [][ lastOp' = "disconnect" =>
          LET sent == \E k \in 1..Len(log') : log'[k] = "send disable"
          IN  /\ sent <=> (connected /\ socket_connection # None)
              /\ ~connected => ~sent
              /\ log' \in { <<>>, <<"close">>, <<"send disable">>,
                            <<"send disable", "close">> } ]_vars

C29_Witness ==
    /\ lastOp = "disconnect"
    /\ log = <<"send disable", "close">>
    /\ socket_connection = None

\* C30: a disconnect() that follows a disconnect() does nothing on the
\* network and leaves the flag, the socket handle and the open sockets as
\* the first one left them.
C30_DisconnectIdempotent ==
    [][ (lastOp = "disconnect" /\ lastOp' = "disconnect") =>
          /\ log' = <<>>
          /\ connected' = connected
          /\ socket_connection' = socket_connection
          /\ open_sockets' = open_sockets ]_vars

\* A stop_capture() that found a capture active has returned, and no
\* capture thread runs any more.
CaptureStopped ==
    /\ graph.op = "stop_capture"
    /\ graph.pc = "idle"
    /\ graph.stopped # {}
    /\ ~graph.is_capturing
    /\ \A t \in Threads : ~IsAlive(graph, t)

\* C32: when stop_capture() has stopped a capture, no sample is left in the
\* hand-off queue: the samples the thread produced are in the recorded
\* series, which are the rows stop_capture(save_to_file=True) wrote and the
\* samples get_data_summary counts, with the graph window and without it.
C32_NoSampleLeftInQueue ==
    (CaptureStopped /\ graph.save_to_file) =>
        /\ graph.data_queue = <<>>
        /\ Len(graph.saved) = Len(graph.time_data)
        /\ GetDataSummary(graph).samples = Len(graph.saved)


\* Capture thread t of g is inside the body of its loop: it found the flag
\* set and has not come to its sleep yet.
InLoopBody(g, t) ==
    g.threads[t] \in {"put", "limit", "pop_torque", "pop_angle", "pop_time"}

LoopingThreads(g) == {t \in 1..Len(g.threads) : InLoopBody(g, t)}

UpdateInProgress == graph.pc \in {"update", "append_torque", "append_angle"}

\* C35: none of the recorded series holds more than max_samples + 1
\* entries, and outside a graph update the three series are equally long.
C35_SeriesSizeLimited ==
    /\ Len(graph.torque_data) <= max_samples + 1
    /\ Len(graph.time_data) <= max_samples + 1
    /\ Len(graph.angle_data) <= max_samples + 1
    /\ ~UpdateInProgress =>
          /\ Len(graph.time_data) = Len(graph.torque_data)
          /\ Len(graph.angle_data) = Len(graph.torque_data)

\* state['simulation_mode'] is True.
SimulationOn == wizard.simulation_mode = "True"

\* C31: the wizard calls run_torque_test only with simulation mode off, it
\* shows the run-test step with simulation mode off only after
\* test_connection and then connect returned True in the connect step
\* shown last, and with simulation mode on it calls simulate_torque_test
\* only, also in a run that follows a Restart after a run on the
\* controller.
C31_TestFunctionFollowsMode ==
    /\ "run_torque_test" \in wizard.calls => ~SimulationOn
    /\ (wizard.step = "run_test" /\ ~SimulationOn) =>
          /\ wizard.simulation_mode = "False"
          /\ wizard.probed
          /\ wizard.linked
    /\ SimulationOn => wizard.calls \subseteq {"simulate_torque_test"}
    /\ wizard.step = "run_test" => wizard.mode = wizard.simulation_mode

\* A simulated run tests a hole after a Restart that followed a run on the
\* controller.
C31_Witness ==
    /\ wizard.ran_real
    /\ wizard.step = "run_test"
    /\ SimulationOn
    /\ "simulate_torque_test" \in wizard.calls

====
